---------------------------- MODULE Spec2Model ----------------------------
(***************************************************************************)
(* A model of app.py, the Streamlit "CSV Filter Tool".                     *)
(*                                                                         *)
(* The script is run top to bottom once per widget event; the session      *)
(* state (original_df, filtered_df, excluded_df) and the file held by the  *)
(* uploader survive between runs.  One action of the model is one widget   *)
(* event together with the script run it triggers, and the further run     *)
(* that st.rerun() starts.                                                 *)
(*                                                                         *)
(* A cell value is a sequence of one-character strings, a data frame is a  *)
(* record of its ordered column names and its rows, and a row is a         *)
(* function from the frame's column names to cell values.                  *)
(***************************************************************************)
EXTENDS Integers, Sequences, FiniteSets

VARIABLES
    uploaded_file,   \* the file held by st.file_uploader, or None
    original_df,     \* st.session_state.original_df
    filtered_df,     \* st.session_state.filtered_df
    excluded_df,     \* st.session_state.excluded_df
    screen,          \* what the last script run rendered
    event            \* the widget event that started the last script run

vars == <<uploaded_file, original_df, filtered_df, excluded_df, screen, event>>

None == [none |-> TRUE]

Range(s) == {s[i] : i \in DOMAIN s}

(***************************************************************************)
(* Strings                                                                 *)
(***************************************************************************)
LowerLetters ==
    <<"a","b","c","d","e","f","g","h","i","j","k","l","m",
      "n","o","p","q","r","s","t","u","v","w","x","y","z">>

UpperLetters ==
    <<"A","B","C","D","E","F","G","H","I","J","K","L","M",
      "N","O","P","Q","R","S","T","U","V","W","X","Y","Z">>

Whitespace == {" ", "\t", "\n"}

\* str.upper() on one character
upper_char(c) ==
    IF \E i \in DOMAIN LowerLetters : LowerLetters[i] = c
    THEN UpperLetters[CHOOSE i \in DOMAIN LowerLetters : LowerLetters[i] = c]
    ELSE c

\* the case folding re.IGNORECASE applies to a character of the subject
lower_char(c) ==
    IF \E i \in DOMAIN UpperLetters : UpperLetters[i] = c
    THEN LowerLetters[CHOOSE i \in DOMAIN UpperLetters : UpperLetters[i] = c]
    ELSE c

\* Series.str.upper()
str_upper(s) == [i \in DOMAIN s |-> upper_char(s[i])]

RECURSIVE lstrip(_)
lstrip(s) ==
    IF s # <<>> /\ Head(s) \in Whitespace THEN lstrip(Tail(s)) ELSE s

RECURSIVE rstrip(_)
rstrip(s) ==
    IF s # <<>> /\ s[Len(s)] \in Whitespace
    THEN rstrip(SubSeq(s, 1, Len(s) - 1))
    ELSE s

\* Series.str.strip() / str.strip()
str_strip(s) == rstrip(lstrip(s))

\* Series.str.replace(ch, '') for a one-character, literal pattern
RECURSIVE str_replace(_, _)
str_replace(s, ch) ==
    IF s = <<>> THEN <<>>
    ELSE (IF Head(s) = ch THEN <<>> ELSE <<Head(s)>>) \o str_replace(Tail(s), ch)

\* the alternatives of the pattern "canceled|cancelled|test|testing|customer"
NamePattern ==
    << <<"c","a","n","c","e","l","e","d">>,
       <<"c","a","n","c","e","l","l","e","d">>,
       <<"t","e","s","t">>,
       <<"t","e","s","t","i","n","g">>,
       <<"c","u","s","t","o","m","e","r">> >>

\* one alternative of the pattern matched at position i of s, ignoring case
MatchAt(alt, s, i) ==
    /\ i + Len(alt) - 1 <= Len(s)
    /\ \A k \in 1..Len(alt) : lower_char(s[i + k - 1]) = alt[k]

\* Series.str.contains(pat, case=False, na=False, regex=True): re.search
str_contains(s, pat) ==
    \E i \in 1..Len(s) : \E a \in DOMAIN pat : MatchAt(pat[a], s, i)


(***************************************************************************)
(* Data frames                                                             *)
(***************************************************************************)
\* how pandas holds a missing cell until fillna("") replaces it
NaN == <<"<NaN>">>

\* the cell texts pd.read_csv reads as missing (its default na_values) among
\* the texts the input files below use
NaValues == { <<>>, <<"N","/","A">>, <<"n","/","a">>, <<"N","A">> }

\* required_cols without 'Customer ID'
required_cols_short ==
    <<"First Name", "Last Name", "Customer Drivers License",
      "Gender", "Date of Birth", "Email", "Opted In", "Phone",
      "Street Address", "City", "State", "Zip Code",
      "Reward Points ($) Balance", "Customer Source",
      "Customer Drivers License Expiration Date", "Medical Id",
      "Customer Medical Id Expiration Date", "Customer Profile Notes", "Banned">>

required_cols ==
    <<"First Name", "Last Name", "Customer Drivers License", "Customer ID",
      "Gender", "Date of Birth", "Email", "Opted In", "Phone",
      "Street Address", "City", "State", "Zip Code",
      "Reward Points ($) Balance", "Customer Source",
      "Customer Drivers License Expiration Date", "Medical Id",
      "Customer Medical Id Expiration Date", "Customer Profile Notes", "Banned">>

\* pd.read_csv(uploaded_file, dtype=str): every cell a string, missing cells NaN
read_csv(file) ==
    [columns |-> file.columns,
     rows    |-> [i \in DOMAIN file.rows |->
                     [c \in DOMAIN file.rows[i] |->
                         IF file.rows[i][c] \in NaValues THEN NaN
                         ELSE file.rows[i][c]]]]

\* df.fillna("")
fillna(df) ==
    [columns |-> df.columns,
     rows    |-> [i \in DOMAIN df.rows |->
                     [c \in DOMAIN df.rows[i] |->
                         IF df.rows[i][c] = NaN THEN <<>> ELSE df.rows[i][c]]]]

\* missing_cols stopping at the first missing column
missing_cols_first(df) ==
    LET absent(c) == c \notin Range(df.columns)
        all == SelectSeq(required_cols, absent)
    IN  IF all = <<>> THEN <<>> ELSE <<Head(all)>>

\* [col for col in required_cols if col not in df.columns]
missing_cols(df) ==
    LET absent(c) == c \notin Range(df.columns)
    IN  SelectSeq(required_cols, absent)

\* len(df)
len(df) == Len(df.rows)

\* the columns lines 57-72 read
MaskReads == {"First Name", "Last Name", "Customer Drivers License"}

\* mask comparing the licence as given, not trimmed
mask_untrimmed(df) ==
    [i \in DOMAIN df.rows |->
        LET r == df.rows[i]
        IN  /\ ~str_contains(r["First Name"], NamePattern)
            /\ ~str_contains(r["Last Name"], NamePattern)
            /\ str_upper(r["Customer Drivers License"]) # <<"N","/","A">>
            /\ r["Customer Drivers License"] # <<>>]

\* the boolean Series of lines 57-72, one entry per row of df
mask(df) ==
    [i \in DOMAIN df.rows |->
        LET r == df.rows[i]
        IN  /\ ~str_contains(r["First Name"], NamePattern)
            /\ ~str_contains(r["Last Name"], NamePattern)
            /\ str_upper(str_strip(r["Customer Drivers License"])) # <<"N","/","A">>
            /\ str_strip(r["Customer Drivers License"]) # <<>>]

\* select_rows listing the selected rows last to first
RECURSIVE select_rows_reversed(_, _, _)
select_rows_reversed(rows, m, i) ==
    IF i > Len(rows) THEN <<>>
    ELSE select_rows_reversed(rows, m, i + 1) \o (IF m[i] THEN <<rows[i]>> ELSE <<>>)

\* the rows of a frame a boolean Series selects, in the frame's order
RECURSIVE select_rows(_, _, _)
select_rows(rows, m, i) ==
    IF i > Len(rows) THEN <<>>
    ELSE (IF m[i] THEN <<rows[i]>> ELSE <<>>) \o select_rows(rows, m, i + 1)

\* df[m]
bool_index(df, m) ==
    [columns |-> df.columns, rows |-> select_rows(df.rows, m, 1)]

\* ~mask left out
invert_same(m) == m

\* ~mask
invert(m) == [i \in DOMAIN m |-> ~m[i]]

(***************************************************************************)
(* The reshaped table, lines 78-132                                        *)
(***************************************************************************)
\* the longest Notes value kept whole (x[:500] if len(x) > 500 else x)
NotesLimit == 500

Copy(out, src)    == [out |-> out, kind |-> "copy",    src |-> src,  src2 |-> "", lit |-> <<>>]
Literal(out, lit) == [out |-> out, kind |-> "literal", src |-> "",   src2 |-> "", lit |-> lit]
Derived(out, kind, src) == [out |-> out, kind |-> kind, src |-> src, src2 |-> "", lit |-> <<>>]

\* the column assignments of lines 80-132, in program order
ReshapeRule ==
    << Copy("external ID", "Customer ID"),
       Copy("First Name", "First Name"),
       Copy("Last Name", "Last Name"),
       Copy("Gender", "Gender"),
       Copy("Date of Birth", "Date of Birth"),
       Copy("Email", "Email"),
       Copy("Email Opt-In", "Opted In"),
       Copy("Phone", "Phone"),
       Literal("SMS Opt-In", <<"N">>),
       Literal("Push Opt-In", <<"N">>),
       [out |-> "Address", kind |-> "concat", src |-> "Street Address",
        src2 |-> "City", lit |-> <<",", " ">>],
       Copy("State", "State"),
       Copy("Zip", "Zip Code"),
       Literal("Minimum Loyalty Level", <<"N","o","n","e">>),
       Derived("Point Balance", "point_balance", "Reward Points ($) Balance"),
       Copy("Referral Source", "Customer Source"),
       Literal("Created In Store", <<"Y">>),
       Literal("Doctor", <<"N","/","A">>),
       Literal("Doctor License", <<"N","/","A">>),
       Literal("Primary Document Type",
               <<"D","r","i","v","e","r","'","s"," ","L","i","c","e","n","s","e">>),
       Copy("Primary Document Number", "Customer Drivers License"),
       Copy("Expiration Date", "Customer Drivers License Expiration Date"),
       Derived("Medical Document Type", "medical_type", "Medical Id"),
       Derived("Medical Document Number", "medical_number", "Medical Id"),
       Copy("Medical Document Expiration Date", "Customer Medical Id Expiration Date"),
       Literal("Medical Document Renewal Rate", <<>>),
       Literal("Medical Document Issue Date", <<>>),
       Literal("Image URL", <<>>),
       Derived("Notes", "notes", "Customer Profile Notes"),
       Copy("Banned", "Banned") >>

\* the source columns lines 80-132 read
ReshapeReads ==
    {ReshapeRule[k].src : k \in {j \in DOMAIN ReshapeRule : ReshapeRule[j].src # ""}}
        \cup {ReshapeRule[k].src2 : k \in {j \in DOMAIN ReshapeRule : ReshapeRule[j].src2 # ""}}

\* lambda x: 'MMID' if x.strip() != '' else 'None'
medical_type(x) ==
    IF str_strip(x) # <<>> THEN <<"M","M","I","D">> ELSE <<"N","o","n","e">>

\* medical_number returning the trimmed Medical Id
medical_number_trimmed(x) ==
    IF str_strip(x) # <<>> THEN str_strip(x) ELSE <<"N","o","n","e">>

\* lambda x: x if x.strip() != '' else 'None'
medical_number(x) ==
    IF str_strip(x) # <<>> THEN x ELSE <<"N","o","n","e">>

\* notes cutting one character too many
notes_short(x) ==
    IF Len(x) > NotesLimit THEN SubSeq(x, 1, NotesLimit - 1) ELSE x

\* lambda x: x[:500] if len(x) > 500 else x
notes(x) ==
    IF Len(x) > NotesLimit THEN SubSeq(x, 1, NotesLimit) ELSE x

\* .str.replace('$', '').str.replace(',', '')
point_balance(x) == str_replace(str_replace(x, "$"), ",")

\* the value one assignment computes for one row of the local filtered_df
derive(rule, r) ==
    CASE rule.kind = "copy"           -> r[rule.src]
      [] rule.kind = "literal"        -> rule.lit
      [] rule.kind = "concat"         -> r[rule.src] \o rule.lit \o r[rule.src2]
      [] rule.kind = "point_balance"  -> point_balance(r[rule.src])
      [] rule.kind = "medical_type"   -> medical_type(r[rule.src])
      [] rule.kind = "medical_number" -> medical_number(r[rule.src])
      [] rule.kind = "notes"          -> notes(r[rule.src])

\* the rule whose assignment gives column c its final value: assigning to an
\* existing column overwrites it
last_rule(rules, c) ==
    rules[CHOOSE k \in DOMAIN rules :
             /\ rules[k].out = c
             /\ \A j \in DOMAIN rules : rules[j].out = c => j <= k]

\* the columns of a frame after the assignments `rules`: each assignment to a
\* name the frame does not have yet appends a column
assigned_columns(rules) ==
    LET firsts == {k \in DOMAIN rules : \A j \in 1..(k - 1) : rules[j].out # rules[k].out}
    IN  [n \in 1..Cardinality(firsts) |->
            rules[CHOOSE k \in firsts : Cardinality({j \in firsts : j <= k}) = n].out]

\* formatted_df left without columns when no row is kept
formatted_df_by_content(kept) ==
    LET cols == IF kept.rows = <<>> THEN <<>> ELSE assigned_columns(ReshapeRule)
    IN  [columns |-> cols,
         rows    |-> [i \in DOMAIN kept.rows |->
                         [c \in Range(cols) |->
                             derive(last_rule(ReshapeRule, c), kept.rows[i])]]]

\* formatted_df = pd.DataFrame() followed by the assignments of lines 80-132.
\* The first Series assigned gives the frame its index (that of the local
\* filtered_df, one row per kept row); later Series are aligned on it and
\* scalars are broadcast over it.
formatted_df(kept) ==
    LET nrows == IF \E k \in DOMAIN ReshapeRule : ReshapeRule[k].kind # "literal"
                 THEN Len(kept.rows) ELSE 0
        cols  == assigned_columns(ReshapeRule)
    IN  [columns |-> cols,
         rows    |-> [i \in 1..nrows |->
                         [c \in Range(cols) |->
                             derive(last_rule(ReshapeRule, c), kept.rows[i])]]]

(***************************************************************************)
(* One run of the script                                                   *)
(***************************************************************************)
NoSession == [original_df |-> None, filtered_df |-> None, excluded_df |-> None]

\* One top-to-bottom run of app.py with `up` in the uploader, session state S
\* and `click` the button whose press started the run ("none" for any other
\* event).  The result is the session state the run leaves, what it rendered
\* and whether it ended in st.rerun().
Script(up, S, click) ==
    LET parsed    == up # None /\ up.parses
        df        == fillna(read_csv(up))
        S1        == IF parsed THEN [S EXCEPT !.original_df = df] ELSE S
        missing   == IF parsed THEN missing_cols(df) ELSE <<>>
        valid     == parsed /\ missing = <<>>
        clicked   == valid /\ click = "apply"
        masked    == clicked /\ MaskReads \subseteq Range(df.columns)
        key_error == clicked /\ ~((MaskReads \cup ReshapeReads) \subseteq Range(df.columns))
        applied   == clicked /\ ~key_error
        m         == mask(df)
        S2        == IF applied
                     THEN [S1 EXCEPT !.filtered_df = formatted_df(bool_index(df, m)),
                                     !.excluded_df = bool_index(df, invert(m))]
                     ELSE S1
        shows     == ~applied /\ S2.filtered_df # None
        reset     == shows /\ click = "reset"
    IN  [S      |-> IF reset THEN NoSession ELSE S2,
         rerun  |-> applied \/ reset,
         screen |-> [error             |-> missing,
                     info              |-> IF missing # <<>> THEN df.columns ELSE <<>>,
                     apply_button      |-> valid,
                     exception         |-> (up # None /\ ~up.parses) \/ key_error,
                     results           |-> shows,
                     metrics           |-> IF shows
                                           THEN <<len(S2.original_df), len(S2.filtered_df),
                                                  len(S2.excluded_df)>>
                                           ELSE <<>>,
                     download_filtered |-> shows,
                     download_excluded |-> shows /\ len(S2.excluded_df) > 0,
                     classified        |-> IF masked THEN len(df) ELSE 0]]

\* A widget event: the run it starts, and the run st.rerun() starts after it.
\* classified counts the rows the event put through the mask.  (r1 and r2 are
\* bound by quantifiers so that each run is evaluated once.)
Handle(up, click, ev) ==
    \E r1 \in {Script(up, [original_df |-> original_df, filtered_df |-> filtered_df,
               excluded_df |-> excluded_df], click)} :
    \E r2 \in {IF r1.rerun THEN Script(up, r1.S, "none") ELSE r1} :
        /\ original_df' = r2.S.original_df
        /\ filtered_df' = r2.S.filtered_df
        /\ excluded_df' = r2.S.excluded_df
        /\ screen' = [r2.screen EXCEPT !.classified =
                         IF r1.rerun THEN r1.screen.classified + @ ELSE @]
        /\ event' = ev

(***************************************************************************)
(* Uploaded files                                                          *)
(***************************************************************************)
\* the longest table, in rows, built from SmallRows
MaxRows == 2

\* the header of a well-formed customer export
CsvColumns ==
    <<"Customer ID", "First Name", "Last Name", "Gender", "Date of Birth",
      "Email", "Opted In", "Phone", "Street Address", "City", "State",
      "Zip Code", "Reward Points ($) Balance", "Customer Source",
      "Customer Drivers License", "Customer Drivers License Expiration Date",
      "Medical Id", "Customer Medical Id Expiration Date",
      "Customer Profile Notes", "Banned">>

Digits == <<"0","1","2","3","4","5","6","7","8","9">>

IdOf(k) == <<"C", Digits[(k \div 10) + 1], Digits[(k % 10) + 1]>>

\* a Customer Profile Notes text of n characters, its last one unlike the rest
NotesText(n) ==
    [i \in 1..n |-> IF i = n THEN "!" ELSE IF i % 2 = 0 THEN "a" ELSE "b"]

\* the line of an export file for customer k
Row(k, first, last, lic, med, n, bal) ==
    [c \in Range(CsvColumns) |->
        CASE c = "Customer ID"               -> IdOf(k)
          [] c = "First Name"                -> first
          [] c = "Last Name"                 -> last
          [] c = "Customer Drivers License"  -> lic
          [] c = "Medical Id"                -> med
          [] c = "Customer Profile Notes"    -> NotesText(n)
          [] c = "Reward Points ($) Balance" -> bal
          [] c = "Gender"                    -> <<"F">>
          [] c = "Date of Birth"             -> <<"1","9","9","0">>
          [] c = "Email"                     -> <<"a","@","b">>
          [] c = "Opted In"                  -> <<"Y">>
          [] c = "Phone"                     -> <<"5","5","5">>
          [] c = "Street Address"            -> <<"1"," ","M","a","i","n">>
          [] c = "City"                      -> <<"R","e","n","o">>
          [] c = "State"                     -> <<"N","V">>
          [] c = "Zip Code"                  -> <<"8","9","5">>
          [] c = "Customer Source"           -> <<"W","e","b">>
          [] c = "Customer Drivers License Expiration Date" -> <<"2","0","3","0">>
          [] c = "Customer Medical Id Expiration Date"      -> <<>>
          [] c = "Banned"                    -> <<"N">>]

\* First Name cells
FirstNames ==
    << <<"J","o","h","n">>,
       <<>>,
       <<"T","e","s","t"," ","U","s","e","r">>,
       <<"C","o","n","t","e","s","t">>,
       <<"C","A","N","C","E","L","L","E","D">>,
       <<"C","a","n","c","e","l","e","d">>,
       <<"C","u","s","t","o","m","e","r","s">>,
       <<"t","E","s","T","i","N","g">>,
       <<"T","e","s">>,
       <<"C","a","n","c","e","l">>,
       <<"C","u","s","t","o","m"," ","e","r">> >>

\* Last Name cells
LastNames ==
    << <<"D","o","e">>,
       <<>>,
       <<"M","c","T","e","s","t","y">>,
       <<"x","c","a","n","c","e","l","l","e","d","x">>,
       <<"C","U","S","T","O","M","E","R">>,
       <<"O","'","c","a","n","c","e","l","e","d">>,
       <<"T","s","e","t">>,
       <<"C","a","n","c","e","l","l","e">> >>

\* Customer Drivers License cells
Licenses ==
    << <<"D","1","2","3">>,
       <<>>,
       <<" ">>,
       <<"N","/","A">>,
       <<"n","/","a">>,
       <<" ","n","/","a"," ">>,
       <<"N","/","a","\t">>,
       <<"N","A">>,
       <<"N","/","A","1">>,
       <<" ","D","1"," ">>,
       <<"N"," ","/"," ","A">> >>

\* Medical Id cells
MedicalIds ==
    << <<"M","1","2","3","4","5">>,
       <<>>,
       <<" ">>,
       <<" ","M","1"," ">>,
       <<"\t"," ">> >>

\* Reward Points ($) Balance cells
Balances ==
    << <<"1","2">>,
       <<"$","1",",","2","3","4",".","5","0">>,
       <<"$">> >>

\* lengths of Customer Profile Notes cells, around the limit of 500
NotesLengths == <<0, 10, 499, 500, 501, 600>>

\* export lines that differ from an ordinary customer's in one cell
WideRows ==
    {Row(10 + k, FirstNames[k], LastNames[1], Licenses[1], MedicalIds[1], 10, Balances[1]) :
        k \in DOMAIN FirstNames}
    \cup {Row(30 + k, FirstNames[1], LastNames[k], Licenses[1], MedicalIds[1], 10, Balances[1]) :
        k \in DOMAIN LastNames}
    \cup {Row(50 + k, FirstNames[1], LastNames[1], Licenses[k], MedicalIds[1], 10, Balances[1]) :
        k \in DOMAIN Licenses}
    \cup {Row(70 + k, FirstNames[1], LastNames[1], Licenses[1], MedicalIds[k], 10, Balances[1]) :
        k \in DOMAIN MedicalIds}
    \cup {Row(80 + k, FirstNames[1], LastNames[1], Licenses[1], MedicalIds[1], NotesLengths[k],
              Balances[1]) : k \in DOMAIN NotesLengths}
    \cup {Row(90 + k, FirstNames[1], LastNames[1], Licenses[1], MedicalIds[1], 10, Balances[k]) :
        k \in DOMAIN Balances}

\* the export lines the tables of several rows are built from: two customers
\* the filter keeps and two it excludes
SmallRows ==
    { Row(1, FirstNames[1], LastNames[1], Licenses[1], MedicalIds[1], 10, Balances[2]),
      Row(2, FirstNames[3], LastNames[1], Licenses[1], MedicalIds[2], 10, Balances[1]),
      Row(3, FirstNames[2], LastNames[2], Licenses[10], MedicalIds[3], 3, Balances[1]),
      Row(4, FirstNames[1], LastNames[1], Licenses[6], MedicalIds[1], 0, Balances[1]) }

\* the sequences of at most n distinct elements of S
SeqsUpTo(S, n) ==
    {s \in UNION {[1..k -> S] : k \in 0..n} :
        \A i, j \in DOMAIN s : i # j => s[i] # s[j]}

\* the header of a file without the columns in drop
Without(drop) == LET keep(c) == c \notin drop IN SelectSeq(CsvColumns, keep)

\* a file with header cols and one line per element of rows
CsvFile(cols, rows) ==
    [parses |-> TRUE, columns |-> cols,
     rows |-> [i \in DOMAIN rows |->
                  [c \in Range(cols) |->
                      IF c \in DOMAIN rows[i] THEN rows[i][c] ELSE <<"S","1">>]]]

\* files with every required column, of one customer each
WideFiles == {CsvFile(CsvColumns, <<r>>) : r \in WideRows}

\* files with every required column, of up to MaxRows customers, and one with
\* a column the program does not ask for
ValidFiles ==
    {CsvFile(CsvColumns, t) : t \in SeqsUpTo(SmallRows, MaxRows)}
    \cup {CsvFile(Append(CsvColumns, "Store"), t) :
            t \in { <<Row(5, FirstNames[1], LastNames[1], Licenses[1], MedicalIds[1], 10,
                          Balances[1])>> }}

\* files that lack required columns
InvalidFiles ==
    {CsvFile(Without(drop), t) :
        drop \in { {"Customer ID"},
                   {"First Name", "Banned"},
                   Range(CsvColumns) \ MaskReads },
        t \in SeqsUpTo({Row(6, FirstNames[1], LastNames[1], Licenses[1], MedicalIds[1], 10,
                            Balances[1])}, 1)}

\* a file pd.read_csv rejects (no header line, unbalanced quoting)
BadFile == [parses |-> FALSE, columns |-> <<>>, rows |-> <<>>]

Files == ValidFiles \cup InvalidFiles \cup {BadFile}

(***************************************************************************)
(* Widget events                                                           *)
(***************************************************************************)
Init ==
    /\ uploaded_file = None
    /\ original_df = None
    /\ filtered_df = None
    /\ excluded_df = None
    /\ screen = Script(None, NoSession, "none").screen
    /\ event = "start"

\* the user puts a file in the uploader (replacing the one it held)
Upload(f) ==
    /\ uploaded_file' = f
    /\ Handle(f, "none", "upload")

\* the user removes the file from the uploader
RemoveFile ==
    /\ uploaded_file # None
    /\ uploaded_file' = None
    /\ Handle(None, "none", "remove")

\* the user presses "Apply Filters", which the last run rendered
ApplyFilters ==
    /\ screen.apply_button
    /\ UNCHANGED uploaded_file
    /\ Handle(uploaded_file, "apply", "apply")

\* the user presses a download button, which only reruns the script
Download ==
    /\ screen.download_filtered
    /\ UNCHANGED uploaded_file
    /\ Handle(uploaded_file, "none", "download")

\* the user presses "Reset & Upload New File"
Reset ==
    /\ screen.results
    /\ UNCHANGED uploaded_file
    /\ Handle(uploaded_file, "reset", "reset")

Next ==
    \/ \E f \in Files : Upload(f)
    \/ RemoveFile
    \/ ApplyFilters
    \/ Download
    \/ Reset

Spec == Init /\ [][Next]_vars

\* A session that starts with one of the WideFiles in the uploader, for the
\* claims about what the filter and the reshape do to one row.
InitRows ==
    \E f \in WideFiles :
        /\ uploaded_file = f
        /\ original_df = Script(f, NoSession, "none").S.original_df
        /\ filtered_df = None
        /\ excluded_df = None
        /\ screen = Script(f, NoSession, "none").screen
        /\ event = "upload"

NextRows ==
    \/ RemoveFile
    \/ ApplyFilters
    \/ Download
    \/ Reset

SpecRows == InitRows /\ [][NextRows]_vars

(***************************************************************************)
(* Properties                                                              *)
(***************************************************************************)
\* Apply Filters has just stored its results
Applied == event = "apply" /\ filtered_df # None

\* the index in original_df of the customer with this Customer ID
RowOf(id) ==
    CHOOSE i \in DOMAIN original_df.rows : original_df.rows[i]["Customer ID"] = id

\* the input row the j-th row of the kept table was made from
SourceOf(j) == original_df.rows[RowOf(filtered_df.rows[j]["external ID"])]

\* the input rows that have a row in the kept table / are in the excluded table
KeptRows == {i \in DOMAIN original_df.rows :
                \E j \in DOMAIN filtered_df.rows :
                    filtered_df.rows[j]["external ID"] = original_df.rows[i]["Customer ID"]}

ExcludedRows == {i \in DOMAIN original_df.rows :
                    \E j \in DOMAIN excluded_df.rows :
                        excluded_df.rows[j] = original_df.rows[i]}

BannedTerms ==
    { <<"C","A","N","C","E","L","E","D">>, <<"C","A","N","C","E","L","L","E","D">>,
      <<"T","E","S","T">>, <<"T","E","S","T","I","N","G">>,
      <<"C","U","S","T","O","M","E","R">> }

\* s contains a banned term as a substring, whatever the case of its letters
HasBannedTerm(s) ==
    \E t \in BannedTerms : \E i \in 1..Len(s) :
        /\ i + Len(t) - 1 <= Len(s)
        /\ str_upper(SubSeq(s, i, i + Len(t) - 1)) = t

\* s is t with whitespace around it
TrimsTo(s, t) ==
    \E i \in 1..(Len(s) + 1) : \E j \in 0..Len(s) :
        /\ SubSeq(s, i, j) = t
        /\ \A k \in DOMAIN s : (k < i \/ k > j) => s[k] \in Whitespace
        /\ t # <<>> => (t[1] \notin Whitespace /\ t[Len(t)] \notin Whitespace)

\* the licence is neither blank nor N/A in any case, once trimmed
LicenseGiven(s) ==
    /\ \E k \in DOMAIN s : s[k] \notin Whitespace
    /\ \A t \in { <<a, "/", b>> : a \in {"n", "N"}, b \in {"a", "A"} } : ~TrimsTo(s, t)

\* C1: Apply Filters keeps a row if and only if neither name contains a banned
\* term (case-insensitively, anywhere) and the trimmed licence is neither empty
\* nor N/A; every other row is excluded.
C1_KeptIffNamesAndLicensePass ==
    Applied =>
        \A i \in DOMAIN original_df.rows :
            LET r == original_df.rows[i]
                keep == /\ ~HasBannedTerm(r["First Name"])
                        /\ ~HasBannedTerm(r["Last Name"])
                        /\ LicenseGiven(r["Customer Drivers License"])
            IN  /\ (i \in KeptRows) <=> keep
                /\ (i \in ExcludedRows) <=> ~keep

\* a customer named "Contest" has been excluded for the "test" in the name
C1_Witness ==
    /\ Applied
    /\ len(original_df) = 1
    /\ original_df.rows[1]["First Name"] = <<"C","o","n","t","e","s","t">>
    /\ len(excluded_df) = 1
    /\ len(filtered_df) = 0

\* C2: Apply Filters puts every input row in exactly one of the kept and the
\* excluded table: the two are disjoint, together they are all rows, and their
\* sizes add up to the size of the input.
C2_Partition ==
    Applied =>
        /\ KeptRows \cup ExcludedRows = DOMAIN original_df.rows
        /\ KeptRows \cap ExcludedRows = {}
        /\ Cardinality(KeptRows) = len(filtered_df)
        /\ Cardinality(ExcludedRows) = len(excluded_df)
        /\ len(filtered_df) + len(excluded_df) = len(original_df)

\* a table of two customers has been split into one kept and one excluded
C2_Witness ==
    /\ Applied
    /\ len(original_df) = 2
    /\ len(filtered_df) = 1
    /\ len(excluded_df) = 1

\* C3: whenever the three counts are shown, Total Rows = Rows Kept + Rows
\* Excluded.
C3_CountsAddUp ==
    screen.metrics # <<>> => screen.metrics[1] = screen.metrics[2] + screen.metrics[3]

\* the required columns a file's header lacks
Lacking(file) == {c \in Range(required_cols) : c \notin Range(file.columns)}

\* C4: uploading a table that lacks required columns reports all of them and
\* all columns present, offers no Apply Filters, classifies no row and leaves
\* the stored kept and excluded tables as they were.
C4_SchemaFailure ==
    [][(event' = "upload" /\ uploaded_file'.parses /\ Lacking(uploaded_file') # {}) =>
          /\ Range(screen'.error) = Lacking(uploaded_file')
          /\ Len(screen'.error) = Cardinality(Lacking(uploaded_file'))
          /\ screen'.info = uploaded_file'.columns
          /\ ~screen'.apply_button
          /\ screen'.classified = 0
          /\ filtered_df' = filtered_df
          /\ excluded_df' = excluded_df]_vars

\* a file lacking two required columns has been uploaded over stored results
C4_Witness ==
    /\ event = "upload"
    /\ Len(screen.error) = 2
    /\ filtered_df # None
    /\ len(excluded_df) > 0

\* C5: the excluded table lists the excluded input rows in input order, and the
\* kept table has one row per kept input row, in input order, each made from
\* that input row.
C5_StableFilter ==
    Applied =>
        /\ \A j \in DOMAIN excluded_df.rows :
              \E i \in DOMAIN original_df.rows : original_df.rows[i] = excluded_df.rows[j]
        /\ \A j, k \in DOMAIN excluded_df.rows :
              j < k => RowOf(excluded_df.rows[j]["Customer ID"])
                         < RowOf(excluded_df.rows[k]["Customer ID"])
        /\ \A j \in DOMAIN filtered_df.rows :
              \E i \in DOMAIN original_df.rows :
                  original_df.rows[i]["Customer ID"] = filtered_df.rows[j]["external ID"]
        /\ \A j, k \in DOMAIN filtered_df.rows :
              j < k => RowOf(filtered_df.rows[j]["external ID"])
                         < RowOf(filtered_df.rows[k]["external ID"])
        /\ \A j \in DOMAIN filtered_df.rows :
              \A n \in DOMAIN ReshapeRule :
                  ReshapeRule[n].kind = "copy" =>
                      filtered_df.rows[j][ReshapeRule[n].out] = SourceOf(j)[ReshapeRule[n].src]
        /\ len(filtered_df) = len(original_df) - len(excluded_df)

\* two kept customers stand in the kept table in the order of the input
C5_Witness ==
    /\ Applied
    /\ len(filtered_df) = 2
    /\ filtered_df.rows[1]["external ID"] = original_df.rows[1]["Customer ID"]
    /\ filtered_df.rows[1]["external ID"] # filtered_df.rows[2]["external ID"]

\* the results Apply Filters computes for a file
ResultsFor(file) ==
    LET df == fillna(read_csv(file))
    IN  [filtered_df |-> formatted_df(bool_index(df, mask(df))),
         excluded_df |-> bool_index(df, invert(mask(df)))]

\* C6: after Reset the three session slots are empty and no results are shown,
\* and after an upload the results shown are never those of an earlier file.
C6_DiscardedOnResetAndUpload ==
    /\ event = "reset" =>
          /\ original_df = None /\ filtered_df = None /\ excluded_df = None
          /\ ~screen.results
    /\ (event = "upload" /\ screen.results) =>
          /\ uploaded_file.parses
          /\ Lacking(uploaded_file) = {}
          /\ filtered_df = ResultsFor(uploaded_file).filtered_df
          /\ excluded_df = ResultsFor(uploaded_file).excluded_df

\* the 30 columns of the reshaped table, in order
OutputColumns ==
    <<"external ID", "First Name", "Last Name", "Gender", "Date of Birth", "Email",
      "Email Opt-In", "Phone", "SMS Opt-In", "Push Opt-In", "Address", "State", "Zip",
      "Minimum Loyalty Level", "Point Balance", "Referral Source", "Created In Store",
      "Doctor", "Doctor License", "Primary Document Type", "Primary Document Number",
      "Expiration Date", "Medical Document Type", "Medical Document Number",
      "Medical Document Expiration Date", "Medical Document Renewal Rate",
      "Medical Document Issue Date", "Image URL", "Notes", "Banned">>

\* C7 as stated: the reshaped table always has the same ordered columns, 26 of
\* them.
C7_FixedSchemaOf26 ==
    filtered_df # None =>
        /\ filtered_df.columns = OutputColumns
        /\ Len(filtered_df.columns) = 26

\* C7, amended: the reshaped table always has the same ordered columns, 30 of
\* them, whatever the rows are and also when no row is kept; every row has
\* exactly these columns.
C7_FixedSchemaOf30 ==
    filtered_df # None =>
        /\ filtered_df.columns = OutputColumns
        /\ Len(filtered_df.columns) = 30
        /\ \A j \in DOMAIN filtered_df.rows :
              DOMAIN filtered_df.rows[j] = Range(OutputColumns)

\* a table of which no row is kept has been reshaped
C7_Witness ==
    /\ Applied
    /\ len(original_df) = 2
    /\ len(filtered_df) = 0
    /\ Len(filtered_df.columns) = 30

Blank(s) == \A k \in DOMAIN s : s[k] \in Whitespace

\* C8: for a kept row with a blank Medical Id both medical document fields are
\* 'None'; otherwise the type is 'MMID' and the number is the Medical Id as
\* given; the type is 'MMID' exactly when the number is the Medical Id.
C8_MedicalDocument ==
    Applied =>
        \A j \in DOMAIN filtered_df.rows :
            LET id  == SourceOf(j)["Medical Id"]
                typ == filtered_df.rows[j]["Medical Document Type"]
                num == filtered_df.rows[j]["Medical Document Number"]
            IN  /\ Blank(id) => typ = <<"N","o","n","e">> /\ num = <<"N","o","n","e">>
                /\ ~Blank(id) => typ = <<"M","M","I","D">> /\ num = id
                /\ (typ = <<"M","M","I","D">>) <=> (num = id)

\* a Medical Id with spaces around it has been copied with them
C8_Witness ==
    /\ Applied
    /\ len(filtered_df) = 1
    /\ SourceOf(1)["Medical Id"] = <<" ","M","1"," ">>
    /\ filtered_df.rows[1]["Medical Document Number"] = <<" ","M","1"," ">>
    /\ filtered_df.rows[1]["Medical Document Type"] = <<"M","M","I","D">>

\* C9: Notes is Customer Profile Notes when that has at most 500 characters and
\* its first 500 characters otherwise; it is always a prefix of it, of at most
\* 500 characters.
C9_NotesTruncated ==
    Applied =>
        \A j \in DOMAIN filtered_df.rows :
            LET src == SourceOf(j)["Customer Profile Notes"]
                out == filtered_df.rows[j]["Notes"]
            IN  /\ Len(src) <= 500 => out = src
                /\ Len(src) > 500 => Len(out) = 500
                /\ Len(out) <= 500
                /\ Len(out) <= Len(src)
                /\ \A k \in DOMAIN out : out[k] = src[k]

\* notes of 501 characters have lost their last character
C9_Witness ==
    /\ Applied
    /\ len(filtered_df) = 1
    /\ Len(SourceOf(1)["Customer Profile Notes"]) = 501
    /\ Len(filtered_df.rows[1]["Notes"]) = 500
    /\ filtered_df.rows[1]["Notes"][500] = SourceOf(1)["Customer Profile Notes"][500]

\* C10: rows are classified only by Apply Filters, on a table that passed the
\* required-column check in that run; every column the filter or the reshape
\* reads is a required column, so no read of a column fails.
C10_ReadsOnlyValidatedColumns ==
    /\ screen.classified > 0 => event = "apply"
    /\ event = "apply" =>
          /\ original_df # None
          /\ \A c \in Range(required_cols) : c \in Range(original_df.columns)
          /\ \A c \in MaskReads \cup ReshapeReads : c \in Range(original_df.columns)
          /\ ~screen.exception
    /\ MaskReads \cup ReshapeReads \subseteq Range(required_cols)

\* Apply Filters has classified the rows of a validated table
C10_Witness ==
    /\ event = "apply"
    /\ screen.classified = 2
    /\ ~screen.exception
    /\ len(filtered_df) = 1

=============================================================================
